---- MODULE Spec2Model ----
(***************************************************************************)
(* Verification model of the speechbox / lidbox utilities:                 *)
(*   - lidbox.dataset.tf_util.count_dim_sizes                              *)
(*   - lidbox.dataset.tf_util.make_label2onehot                            *)
(*   - lidbox.dataset.tf_util.extract_features                             *)
(*   - speechbox.commands.model.Model.create_model (+ training epochs)     *)
(* Each function has its own specification (SpecCount, SpecLabel,          *)
(* SpecFeat, SpecModel); the variables of the other functions stay idle.   *)
(***************************************************************************)
EXTENDS Integers, Sequences, FiniteSets, TLC

VARIABLES
    \* ---- count_dim_sizes
    ds,                  \* the dataset: a sequence of elements, each a tuple of tensor shapes
    ds_element_index,    \* which tensor of an element is counted (0-based)
    ndims,               \* the rank the caller announces
    cpc,                 \* position inside count_dim_sizes
    ci,                  \* number of dataset elements consumed by the running reduce
    max_sizes,           \* accumulator of the first reduce
    size_counts,         \* accumulator of the second reduce (ndims x (max_max_size+1))
    sorted_size_indices, \* result of tf.argsort
    dim_sizes,           \* the returned ragged tensor: one row of (count, size) pairs per dimension
    \* ---- make_label2onehot
    labels,              \* the vocabulary handed to make_label2onehot
    lpc,                 \* "start", "built" (returned) or "error" (table initialisation failed)
    label2int,           \* the StaticHashTable: [table |-> key -> value, default_value |-> int]
    OH,                  \* the one-hot matrix
    lookup_key,          \* key of the last label2int.lookup call
    lookup_result,       \* its result
    \* ---- extract_features
    signals_rank,        \* rank of the signals tensor
    sample_rates,        \* one sample rate per signal of the batch
    feattype,            \* requested feature type
    mfcc_kwargs,         \* dict, as a set of <<key, value>> pairs
    feat_scale_kwargs,   \* dict, as a set of <<key, value>> pairs
    window_norm_kwargs,  \* dict, as a set of <<key, value>> pairs
    fpc,                 \* position inside extract_features
    sample_rate,         \* the local sample_rate, as a set: {} before it is assigned
    feat,                \* the feature tensor, abstracted to its kind and cepstral coefficients
    stages,              \* the stages computed so far, in order, with the sample rate each was given
    \* ---- Model command
    args,                \* parsed command line: [train, no_save_model]
    model_config,        \* experiment yaml, model section: [checkpoints |-> dict of overrides]
    mpc,                 \* "start", "created" (create_model returned), "done" (training over)
    callbacks_kwargs,    \* keyword arguments handed to KerasWrapper
    dirs,                \* directories created by this run
    model,               \* the KerasWrapper: its checkpoint callback and the callback's best loss
    epoch,               \* training epochs finished
    files                \* checkpoint files written

countVars == <<ds, ds_element_index, ndims, cpc, ci, max_sizes, size_counts,
               sorted_size_indices, dim_sizes>>

labelVars == <<labels, lpc, label2int, OH, lookup_key, lookup_result>>

featVars == <<signals_rank, sample_rates, feattype, mfcc_kwargs, feat_scale_kwargs,
              window_norm_kwargs, fpc, sample_rate, feat, stages>>

modelVars == <<args, model_config, mpc, callbacks_kwargs, dirs, model, epoch, files>>

vars == <<countVars, labelVars, featVars, modelVars>>

\* ------------------------------------------------------------------ bounds
MaxLen == 2       \* longest dataset
MaxSize == 2      \* largest size of a tensor dimension
MaxLabels == 3    \* longest vocabulary
MaxBatch == 2     \* largest batch of signals
NumMelBins == 14  \* number of mel bins, hence of cepstral coefficients before slicing
MaxEpochs == 3    \* longest training run
MaxLoss == 3      \* validation losses are drawn from 1..MaxLoss

\* ------------------------------------------------------------ small helpers
Max2(a, b) == IF a >= b THEN a ELSE b

RECURSIVE SeqMax(_)
SeqMax(f) ==
    \* tf.math.reduce_max over a 0-based vector
    IF DOMAIN f = {} THEN 0
    ELSE LET hi == CHOOSE d \in DOMAIN f : \A e \in DOMAIN f : e <= d
         IN IF hi = 0 THEN f[0]
            ELSE Max2(f[hi], SeqMax([d \in 0..(hi - 1) |-> f[d]]))

SeqsUpTo(S, n) == UNION {[1..k -> S] : k \in 0..n}

None == "None"

\* ---- values of the variables of a function that is not running
IdleLabel ==
    /\ labels = <<>>
    /\ lpc = "idle"
    /\ label2int = None
    /\ OH = None
    /\ lookup_key = None
    /\ lookup_result = None

NoFeat == [kind |-> "none", coefs |-> <<>>, scaled |-> FALSE, normalized |-> FALSE]

IdleFeat ==
    /\ signals_rank = 0
    /\ sample_rates = <<>>
    /\ feattype = "none"
    /\ mfcc_kwargs = {}
    /\ feat_scale_kwargs = {}
    /\ window_norm_kwargs = {}
    /\ fpc = "idle"
    /\ sample_rate = {}
    /\ feat = NoFeat
    /\ stages = <<>>

NoKwargs == [keys |-> {}, checkpoints |-> {}]
NoModel == [checkpoint_callback |-> {}, best |-> {}]

IdleModel ==
    /\ args = [train |-> FALSE, no_save_model |-> FALSE]
    /\ model_config = [checkpoints |-> {}]
    /\ mpc = "idle"
    /\ callbacks_kwargs = NoKwargs
    /\ dirs = {}
    /\ model = NoModel
    /\ epoch = 0
    /\ files = {}

\* ============================================================ count_dim_sizes

DataRank == 2     \* rank of the tensor at element index 0 (data of shape (x, y))
MetaRank == 1     \* rank of the tensor at element index 1 (meta of shape (1,))

Sizes == 0..MaxSize
Elements == [1..DataRank -> Sizes] \X [1..MetaRank -> {1}]

\* static rank of the tensor at an element index (the dataset's element_spec)
ElementRank(idx) == IF idx = 0 THEN DataRank ELSE MetaRank

\* get_shape_at_index = lambda *t: tf.shape(t[ds_element_index])
get_shape_at_index(t) == t[ds_element_index + 1]

\* tf.zeros(n)
Zeros(n) == [d \in 0..(n - 1) |-> 0]

\* lambda acc, shape: tf.math.maximum(acc, shape)
MaxAcc(acc, shape) == [d \in DOMAIN acc |-> Max2(acc[d], shape[d + 1])]

\* enumerated_shape = stack((shape_indices, shape)); tensor_scatter_nd_add(counter, .., ones)
accumulate_dim_size_counts(counter, shape) ==
    [d \in DOMAIN counter |->
        [s \in DOMAIN counter[d] |->
            counter[d][s] + (IF shape[d + 1] = s THEN 1 ELSE 0)]]

\* tf.argsort(row, direction="DESCENDING"): every index order that sorts the
\* row in descending order (the order of ties is left open by the library)
ArgsortDescending(row) ==
    LET n == Cardinality(DOMAIN row)
    IN {p \in [0..(n - 1) -> 0..(n - 1)] :
            /\ \A a, b \in 0..(n - 1) : a # b => p[a] # p[b]
            /\ \A a \in 0..(n - 2) : row[p[a]] >= row[p[a + 1]]}

IsNonzeroAny(pair) == pair[1] >= 0

\* is_nonzero = sorted_size_counts > 0
is_nonzero(pair) == pair[1] > 0

\* tf.gather(size_counts, sorted_size_indices, batch_dims=1) stacked with the
\* indices along axis 2 after tf.ragged.boolean_mask
MaskedRow(row, p) ==
    LET n == Cardinality(DOMAIN row)
        pairs == [k \in 1..n |-> <<row[p[k - 1]], p[k - 1]>>]
    IN SelectSeq(pairs, is_nonzero)

InitCount ==
    /\ ds \in SeqsUpTo(Elements, MaxLen)
    /\ ds_element_index \in 0..1
    /\ ndims \in 0..DataRank
    /\ cpc = "start"
    /\ ci = 0
    /\ max_sizes = None
    /\ size_counts = None
    /\ sorted_size_indices = None
    /\ dim_sizes = None
    /\ IdleLabel
    /\ IdleFeat
    /\ IdleModel

\* tf.debugging.assert_greater(ndims, 0) fails, or the reduce function cannot
\* be traced because shape_indices (length ndims) and the element's shape
\* (length ElementRank) cannot be stacked
CountReject ==
    /\ cpc = "start"
    /\ (ndims <= 0 \/ ndims # ElementRank(ds_element_index))
    /\ cpc' = "error"
    /\ UNCHANGED <<ds, ds_element_index, ndims, ci, max_sizes, size_counts,
                   sorted_size_indices, dim_sizes, labelVars, featVars, modelVars>>

CountStart ==
    /\ cpc = "start"
    /\ ndims > 0
    /\ ndims = ElementRank(ds_element_index)
    /\ cpc' = "max_sizes"
    /\ ci' = 0
    /\ max_sizes' = Zeros(ndims)
    /\ UNCHANGED <<ds, ds_element_index, ndims, size_counts,
                   sorted_size_indices, dim_sizes, labelVars, featVars, modelVars>>

\* one element of shapes_ds.reduce(tf.zeros(ndims), maximum)
MaxSizesStep ==
    /\ cpc = "max_sizes"
    /\ ci < Len(ds)
    /\ max_sizes' = MaxAcc(max_sizes, get_shape_at_index(ds[ci + 1]))
    /\ ci' = ci + 1
    /\ UNCHANGED <<ds, ds_element_index, ndims, cpc, size_counts,
                   sorted_size_indices, dim_sizes, labelVars, featVars, modelVars>>

\* max_max_size = reduce_max(max_sizes); tf.zeros((ndims, max_max_size + 1))
AllocCounter ==
    /\ cpc = "max_sizes"
    /\ ci = Len(ds)
    /\ LET max_max_size == SeqMax(max_sizes)
       IN size_counts' = [d \in 0..(ndims - 1) |-> Zeros(max_max_size + 1)]
    /\ ci' = 0
    /\ cpc' = "size_counts"
    /\ UNCHANGED <<ds, ds_element_index, ndims, max_sizes,
                   sorted_size_indices, dim_sizes, labelVars, featVars, modelVars>>

\* one element of shapes_ds.reduce(zeros, accumulate_dim_size_counts)
AccumulateStep ==
    /\ cpc = "size_counts"
    /\ ci < Len(ds)
    /\ size_counts' = accumulate_dim_size_counts(size_counts, get_shape_at_index(ds[ci + 1]))
    /\ ci' = ci + 1
    /\ UNCHANGED <<ds, ds_element_index, ndims, cpc, max_sizes,
                   sorted_size_indices, dim_sizes, labelVars, featVars, modelVars>>

\* argsort, gather, boolean_mask and ragged stack, then return
SortMaskReturn ==
    /\ cpc = "size_counts"
    /\ ci = Len(ds)
    /\ \E idx \in [0..(ndims - 1) -> UNION {ArgsortDescending(size_counts[d]) : d \in 0..(ndims - 1)}] :
        /\ \A d \in 0..(ndims - 1) : idx[d] \in ArgsortDescending(size_counts[d])
        /\ sorted_size_indices' = idx
        /\ dim_sizes' = [d \in 0..(ndims - 1) |-> MaskedRow(size_counts[d], idx[d])]
    /\ cpc' = "done"
    /\ UNCHANGED <<ds, ds_element_index, ndims, ci, max_sizes, size_counts, labelVars, featVars, modelVars>>

NextCount ==
    \/ CountReject
    \/ CountStart
    \/ MaxSizesStep
    \/ AllocCounter
    \/ AccumulateStep
    \/ SortMaskReturn

SpecCount == InitCount /\ [][NextCount]_vars

\* ---- C1
\* number of elements of the dataset whose counted tensor has size s at dimension d
Occurrences(d, s) ==
    Cardinality({i \in 1..Len(ds) : get_shape_at_index(ds[i])[d + 1] = s})

\* C1: when count_dim_sizes returns, row d of the result holds exactly one
\* (count, size) pair for every size that occurs at dimension d among the
\* elements, its count is the number of elements with that size at d, and no
\* pair exists for a size that never occurs (an empty dataset gives empty rows).
C1_CountDimSizes ==
    cpc = "done" =>
        /\ DOMAIN dim_sizes = 0..(ndims - 1)
        /\ \A d \in 0..(ndims - 1) :
            /\ \A k \in 1..Len(dim_sizes[d]) :
                /\ Occurrences(d, dim_sizes[d][k][2]) > 0
                /\ dim_sizes[d][k][1] = Occurrences(d, dim_sizes[d][k][2])
            /\ \A s \in 0..(MaxSize + 1) :
                Cardinality({k \in 1..Len(dim_sizes[d]) : dim_sizes[d][k][2] = s})
                    = (IF Occurrences(d, s) > 0 THEN 1 ELSE 0)
            /\ (ds = <<>> => dim_sizes[d] = <<>>)

\* a 2-dimensional run over two elements that differ at dimension 0 and agree at dimension 1
C1_Witness ==
    /\ cpc = "done"
    /\ ndims = 2
    /\ Len(ds) = 2
    /\ Len(dim_sizes[0]) = 2
    /\ Len(dim_sizes[1]) = 1
    /\ dim_sizes[1][1][1] = 2

\* ========================================================== make_label2onehot
Words == {"one", "two", "three", "four"}

IdleCount ==
    /\ ds = <<>>
    /\ ds_element_index = 0
    /\ ndims = 0
    /\ cpc = "idle"
    /\ ci = 0
    /\ max_sizes = None
    /\ size_counts = None
    /\ sorted_size_indices = None
    /\ dim_sizes = None

labels_enum_from_one(ls) == [i \in 1..Len(ls) |-> i]

\* labels_enum = tf.range(len(labels))
labels_enum(ls) == [i \in 1..Len(ls) |-> i - 1]

default_value_last(ls) == Len(ls) - 1

\* tf.constant(len(labels), dtype=tf.int32): "one past last one if not found"
default_value(ls) == Len(ls)

\* KeyValueTensorInitializer: the pairs are inserted in order; inserting a key
\* that is already present with another value fails the initialisation
RECURSIVE InsertAll(_, _, _, _)
InsertAll(keys, values, k, acc) ==
    IF k > Len(keys) \/ ~acc.ok THEN acc
    ELSE IF keys[k] \in DOMAIN acc.table /\ acc.table[keys[k]] # values[k]
         THEN [ok |-> FALSE, table |-> acc.table]
    ELSE InsertAll(keys, values, k + 1,
                   [ok |-> TRUE,
                    table |-> [w \in DOMAIN acc.table \cup {keys[k]} |->
                                   IF w = keys[k] THEN values[k] ELSE acc.table[w]]])

\* tf.lookup.StaticHashTable(KeyValueTensorInitializer(labels, labels_enum), len(labels))
StaticHashTable(ls) ==
    LET t == InsertAll(ls, labels_enum(ls), 1, [ok |-> TRUE, table |-> <<>>])
    IN [ok |-> t.ok, table |-> t.table, default_value |-> default_value(ls)]

\* label2int.lookup(key)
lookup(t, key) ==
    IF key \in DOMAIN t.table THEN t.table[key] ELSE t.default_value

\* OH = tf.one_hot(labels_enum, len(labels))
one_hot(indices, depth) ==
    [i \in 0..(Len(indices) - 1) |->
        [j \in 0..(depth - 1) |-> IF j = indices[i + 1] THEN 1 ELSE 0]]

InitLabel ==
    /\ labels \in SeqsUpTo(Words, MaxLabels)
    /\ lpc = "start"
    /\ label2int = None
    /\ OH = None
    /\ lookup_key = None
    /\ lookup_result = None
    /\ IdleCount
    /\ IdleFeat
    /\ IdleModel

\* the whole of make_label2onehot; the table constructor raises on a repeated label
MakeLabel2Onehot ==
    /\ lpc = "start"
    /\ LET t == StaticHashTable(labels)
       IN IF ~t.ok
          THEN /\ lpc' = "error"
               /\ UNCHANGED <<label2int, OH>>
          ELSE /\ lpc' = "built"
               /\ label2int' = t
               /\ OH' = one_hot(labels_enum(labels), Len(labels))
    /\ UNCHANGED <<labels, lookup_key, lookup_result, countVars, featVars, modelVars>>

\* a caller looks a string up in the returned table
Lookup ==
    /\ lpc = "built"
    /\ \E key \in Words :
        /\ lookup_key' = key
        /\ lookup_result' = lookup(label2int, key)
    /\ UNCHANGED <<labels, lpc, label2int, OH, countVars, featVars, modelVars>>

NextLabel ==
    \/ MakeLabel2Onehot
    \/ Lookup

SpecLabel == InitLabel /\ [][NextLabel]_vars

Distinct(ls) == \A i, j \in 1..Len(ls) : i # j => ls[i] # ls[j]
InVocabulary(w) == \E i \in 1..Len(labels) : labels[i] = w

\* index of the largest entry of a 0-based vector (first one on ties), tf.math.argmax
Argmax(row) ==
    CHOOSE j \in DOMAIN row :
        /\ \A k \in DOMAIN row : row[k] <= row[j]
        /\ \A k \in DOMAIN row : row[k] = row[j] => j <= k

\* C2: for a vocabulary of pairwise distinct labels, label2int.lookup(labels[i])
\* is i for every position i, and row OH[i] has length len(labels) with a
\* single 1 at index i and 0 elsewhere, so argmax(OH[i]) = i.
C2_LabelToIndexAndOneHot ==
    (lpc = "built" /\ Distinct(labels)) =>
        /\ DOMAIN OH = 0..(Len(labels) - 1)
        /\ \A i \in 0..(Len(labels) - 1) :
            /\ lookup(label2int, labels[i + 1]) = i
            /\ DOMAIN OH[i] = 0..(Len(labels) - 1)
            /\ OH[i][i] = 1
            /\ \A j \in 0..(Len(labels) - 1) : j # i => OH[i][j] = 0
            /\ Argmax(OH[i]) = i
            /\ (lookup_key = labels[i + 1] => lookup_result = i)

\* the last label of a three-word vocabulary has been looked up
C2_Witness ==
    /\ lpc = "built"
    /\ Len(labels) = 3
    /\ lookup_key = labels[3]
    /\ lookup_result = 2
    /\ OH[2] = [j \in 0..2 |-> IF j = 2 THEN 1 ELSE 0]

\* C3: a lookup of any string outside the vocabulary returns len(labels), one
\* past the last label index; that value is no row index of OH and no label of
\* the vocabulary maps to it.
C3_OutOfVocabulary ==
    lpc = "built" =>
        /\ \A w \in Words : ~InVocabulary(w) => lookup(label2int, w) = Len(labels)
        /\ (lookup_key # None /\ ~InVocabulary(lookup_key)) => lookup_result = Len(labels)
        /\ Len(labels) \notin DOMAIN OH
        /\ \A i \in 1..Len(labels) : lookup(label2int, labels[i]) # Len(labels)
        /\ (lookup_key # None /\ InVocabulary(lookup_key)) => lookup_result # Len(labels)

\* a word outside a two-word vocabulary has been looked up
C3_Witness ==
    /\ lpc = "built"
    /\ Len(labels) = 2
    /\ lookup_key # None
    /\ ~InVocabulary(lookup_key)
    /\ lookup_result = 2

\* =========================================================== extract_features
SampleRates == {8000, 16000}
FeatTypes == {"spectrogram", "melspectrogram", "logmelspectrogram", "mfcc",
              "db_spectrogram", "sparsespeech"}

\* dict.get(key, default) on a dict kept as a set of <<key, value>> pairs
Get(d, key, default) ==
    IF \E kv \in d : kv[1] = key
    THEN (CHOOSE kv \in d : kv[1] = key)[2]
    ELSE default

\* truth value of a dict: empty is false
Truthy(d) == d # {}

\* all dicts over the given keys and values
Dicts(keys, values) ==
    {d \in SUBSET (keys \X values) :
        \A a, b \in d : a[1] = b[1] => a = b}

DefaultCoefBegin == 1
DefaultCoefEnd == 13

\* x[..., b:e] on a last axis of n entries, as a sequence of the kept 0-based indices
Slice(n, b, e) ==
    LET clamp(i) == IF i < 0 THEN (IF i + n < 0 THEN 0 ELSE i + n)
                    ELSE (IF i > n THEN n ELSE i)
        lo == clamp(b)
        hi == clamp(e)
    IN IF hi <= lo THEN <<>> ELSE [k \in 1..(hi - lo) |-> lo + k - 1]

\* tf.debugging.assert_rank(signals, 2)
assert_rank(rank) == rank = 2

AssertEqualFirstOnly(rates) == Len(rates) >= 1

\* tf.debugging.assert_equal(sample_rates, [sample_rates[0]]); indexing an
\* empty batch fails as well
assert_equal(rates) ==
    /\ Len(rates) >= 1
    /\ \A i \in 1..Len(rates) : rates[i] = rates[1]

\* sample_rate = sample_rates[0]
PickSampleRate(rates) == rates[1]

\* feattype in ("melspectrogram", "logmelspectrogram", "mfcc")
UsesMel(ft) == ft \in {"melspectrogram", "logmelspectrogram", "mfcc"}

UsesLogAlsoMel(ft) == ft \in {"melspectrogram", "logmelspectrogram", "mfcc"}

\* feattype in ("logmelspectrogram", "mfcc")
UsesLog(ft) == ft \in {"logmelspectrogram", "mfcc"}

\* feattype == "mfcc"
UsesMfcc(ft) == ft = "mfcc"

\* feattype in ("db_spectrogram",)
UsesDb(ft) == ft \in {"db_spectrogram"}

Stage(name, rates) == [name |-> name, rates |-> rates]

InitFeat ==
    /\ signals_rank \in 1..3
    /\ sample_rates \in SeqsUpTo(SampleRates, MaxBatch)
    /\ feattype \in FeatTypes
    /\ mfcc_kwargs \in Dicts({"coef_begin", "coef_end"}, {0, 2, 5, -1})
    /\ feat_scale_kwargs \in Dicts({"axis"}, {0})
    /\ window_norm_kwargs \in Dicts({"window_len"}, {-1})
    /\ fpc = "assert_rank"
    /\ sample_rate = {}
    /\ feat = NoFeat
    /\ stages = <<>>
    /\ IdleCount
    /\ IdleLabel
    /\ IdleModel

AssertRank ==
    /\ fpc = "assert_rank"
    /\ fpc' = IF assert_rank(signals_rank) THEN "assert_equal" ELSE "error"
    /\ UNCHANGED <<signals_rank, sample_rates, feattype, mfcc_kwargs, feat_scale_kwargs,
                   window_norm_kwargs, sample_rate, feat, stages, countVars, labelVars, modelVars>>

\* the sample-rate assertion and, when it passes, sample_rate = sample_rates[0]
AssertEqualRates ==
    /\ fpc = "assert_equal"
    /\ IF assert_equal(sample_rates)
       THEN /\ sample_rate' = {PickSampleRate(sample_rates)}
            /\ fpc' = "spectrograms"
       ELSE /\ fpc' = "error"
            /\ UNCHANGED sample_rate
    /\ UNCHANGED <<signals_rank, sample_rates, feattype, mfcc_kwargs, feat_scale_kwargs,
                   window_norm_kwargs, feat, stages, countVars, labelVars, modelVars>>

\* feat = audio_features.spectrograms(signals, sample_rate, **spec_kwargs)
Spectrograms ==
    /\ fpc = "spectrograms"
    /\ feat' = [feat EXCEPT !.kind = "spectrogram"]
    /\ stages' = Append(stages, Stage("spectrograms", sample_rate))
    /\ fpc' = IF UsesMel(feattype) THEN "melspectrograms"
              ELSE IF UsesDb(feattype) THEN "power_to_db"
              ELSE "feature_scaling"
    /\ UNCHANGED <<signals_rank, sample_rates, feattype, mfcc_kwargs, feat_scale_kwargs,
                   window_norm_kwargs, sample_rate, countVars, labelVars, modelVars>>

\* feat = audio_features.melspectrograms(feat, sample_rate=sample_rate, **melspec_kwargs)
Melspectrograms ==
    /\ fpc = "melspectrograms"
    /\ feat' = [feat EXCEPT !.kind = "melspectrogram"]
    /\ stages' = Append(stages, Stage("melspectrograms", sample_rate))
    /\ fpc' = IF UsesLog(feattype) THEN "log" ELSE "feature_scaling"
    /\ UNCHANGED <<signals_rank, sample_rates, feattype, mfcc_kwargs, feat_scale_kwargs,
                   window_norm_kwargs, sample_rate, countVars, labelVars, modelVars>>

\* feat = tf.math.log(feat + 1e-6)
Log ==
    /\ fpc = "log"
    /\ feat' = [feat EXCEPT !.kind = "logmelspectrogram"]
    /\ stages' = Append(stages, Stage("log", {}))
    /\ fpc' = IF UsesMfcc(feattype) THEN "mfcc" ELSE "feature_scaling"
    /\ UNCHANGED <<signals_rank, sample_rates, feattype, mfcc_kwargs, feat_scale_kwargs,
                   window_norm_kwargs, sample_rate, countVars, labelVars, modelVars>>

\* mfccs = mfccs_from_log_mel_spectrograms(feat); feat = mfccs[..., coef_begin:coef_end]
Mfcc ==
    /\ fpc = "mfcc"
    /\ LET coef_begin == Get(mfcc_kwargs, "coef_begin", DefaultCoefBegin)
           coef_end == Get(mfcc_kwargs, "coef_end", DefaultCoefEnd)
       IN feat' = [feat EXCEPT !.kind = "mfcc",
                               !.coefs = Slice(NumMelBins, coef_begin, coef_end)]
    /\ stages' = Append(stages, Stage("mfcc", {}))
    /\ fpc' = "feature_scaling"
    /\ UNCHANGED <<signals_rank, sample_rates, feattype, mfcc_kwargs, feat_scale_kwargs,
                   window_norm_kwargs, sample_rate, countVars, labelVars, modelVars>>

\* feat = audio_features.power_to_db(feat, **db_spec_kwargs)
PowerToDb ==
    /\ fpc = "power_to_db"
    /\ feat' = [feat EXCEPT !.kind = "db_spectrogram"]
    /\ stages' = Append(stages, Stage("power_to_db", {}))
    /\ fpc' = "feature_scaling"
    /\ UNCHANGED <<signals_rank, sample_rates, feattype, mfcc_kwargs, feat_scale_kwargs,
                   window_norm_kwargs, sample_rate, countVars, labelVars, modelVars>>

\* if feat_scale_kwargs: feat = features.feature_scaling(feat, **feat_scale_kwargs)
FeatureScaling ==
    /\ fpc = "feature_scaling"
    /\ IF Truthy(feat_scale_kwargs)
       THEN /\ feat' = [feat EXCEPT !.scaled = TRUE]
            /\ stages' = Append(stages, Stage("feature_scaling", {}))
       ELSE UNCHANGED <<feat, stages>>
    /\ fpc' = "window_normalization"
    /\ UNCHANGED <<signals_rank, sample_rates, feattype, mfcc_kwargs, feat_scale_kwargs,
                   window_norm_kwargs, sample_rate, countVars, labelVars, modelVars>>

\* if window_norm_kwargs: feat = features.window_normalization(feat, **window_norm_kwargs)
WindowNormalization ==
    /\ fpc = "window_normalization"
    /\ IF Truthy(window_norm_kwargs)
       THEN /\ feat' = [feat EXCEPT !.normalized = TRUE]
            /\ stages' = Append(stages, Stage("window_normalization", {}))
       ELSE UNCHANGED <<feat, stages>>
    /\ fpc' = "assert_all_finite"
    /\ UNCHANGED <<signals_rank, sample_rates, feattype, mfcc_kwargs, feat_scale_kwargs,
                   window_norm_kwargs, sample_rate, countVars, labelVars, modelVars>>

\* tf.debugging.assert_all_finite(feat, ..); return feat.  The numeric values
\* are not modelled, so either outcome is possible.
AssertAllFinite ==
    /\ fpc = "assert_all_finite"
    /\ \E finite \in BOOLEAN : fpc' = IF finite THEN "done" ELSE "error"
    /\ UNCHANGED <<signals_rank, sample_rates, feattype, mfcc_kwargs, feat_scale_kwargs,
                   window_norm_kwargs, sample_rate, feat, stages, countVars, labelVars, modelVars>>

NextFeat ==
    \/ AssertRank
    \/ AssertEqualRates
    \/ Spectrograms
    \/ Melspectrograms
    \/ Log
    \/ Mfcc
    \/ PowerToDb
    \/ FeatureScaling
    \/ WindowNormalization
    \/ AssertAllFinite

SpecFeat == InitFeat /\ [][NextFeat]_vars

StageNames == [k \in 1..Len(stages) |-> stages[k].name]
IsPrefix(a, b) == Len(a) <= Len(b) /\ \A k \in 1..Len(a) : a[k] = b[k]
RatesUniform == \A i \in 1..Len(sample_rates) : sample_rates[i] = sample_rates[1]

\* C5: extract_features rejects its input before any feature is computed when
\* signals is not of rank 2 or the sample rates of the batch are not all equal
\* to the first one; when both checks pass, sample_rates[0] is the sample rate
\* handed to every stage that takes one (spectrograms and melspectrograms).
C5_RejectsBeforeFeatures ==
    /\ (signals_rank # 2 \/ ~RatesUniform) =>
            /\ stages = <<>>
            /\ feat = NoFeat
            /\ fpc \in {"assert_rank", "assert_equal", "error"}
    /\ (signals_rank # 2 /\ fpc # "assert_rank") => fpc = "error"
    /\ (~RatesUniform /\ fpc \notin {"assert_rank", "assert_equal"}) => fpc = "error"
    /\ \A k \in 1..Len(stages) :
            /\ stages[k].rates \subseteq {sample_rates[1]}
            /\ stages[k].name \in {"spectrograms", "melspectrograms"} =>
                    stages[k].rates = {sample_rates[1]}

\* a rank-2 batch of two signals with different sample rates has been rejected
C5_Witness ==
    /\ fpc = "error"
    /\ signals_rank = 2
    /\ Len(sample_rates) = 2
    /\ sample_rates[1] # sample_rates[2]
    /\ stages = <<>>

\* the stage order the cascade prescribes for a feature type
ExpectedStages ==
    <<"spectrograms">>
    \o (IF feattype \in {"melspectrogram", "logmelspectrogram", "mfcc"}
        THEN <<"melspectrograms">> ELSE <<>>)
    \o (IF feattype \in {"logmelspectrogram", "mfcc"} THEN <<"log">> ELSE <<>>)
    \o (IF feattype = "mfcc" THEN <<"mfcc">> ELSE <<>>)
    \o (IF feattype = "db_spectrogram" THEN <<"power_to_db">> ELSE <<>>)
    \o (IF feat_scale_kwargs # {} THEN <<"feature_scaling">> ELSE <<>>)
    \o (IF window_norm_kwargs # {} THEN <<"window_normalization">> ELSE <<>>)

ExpectedKind ==
    IF feattype \in {"melspectrogram", "logmelspectrogram", "mfcc", "db_spectrogram"}
    THEN feattype ELSE "spectrogram"

\* bounds [coef_begin, coef_end) of the kept cepstral coefficients, defaults 1 and 13
ExpectedCoefBounds ==
    LET b == IF \E kv \in mfcc_kwargs : kv[1] = "coef_begin"
             THEN (CHOOSE kv \in mfcc_kwargs : kv[1] = "coef_begin")[2] ELSE 1
        e == IF \E kv \in mfcc_kwargs : kv[1] = "coef_end"
             THEN (CHOOSE kv \in mfcc_kwargs : kv[1] = "coef_end")[2] ELSE 13
    IN <<IF b < 0 THEN b + NumMelBins ELSE b, IF e < 0 THEN e + NumMelBins ELSE e>>

\* C6: the spectrogram stage runs first; the mel stage runs iff feattype is
\* melspectrogram, logmelspectrogram or mfcc; the log stage iff logmelspectrogram
\* or mfcc, after the mel stage; the MFCC stage, sliced to [coef_begin, coef_end)
\* (defaults 1 and 13), iff mfcc, after the log stage; the power-to-dB stage iff
\* db_spectrogram; any other feattype yields the plain spectrogram; feature
\* scaling and then window normalization follow, each only with non-empty kwargs.
C6_StageCascade ==
    /\ IsPrefix(StageNames, ExpectedStages)
    /\ fpc \in {"assert_all_finite", "done"} =>
            /\ StageNames = ExpectedStages
            /\ feat.kind = ExpectedKind
            /\ feat.scaled = (feat_scale_kwargs # {})
            /\ feat.normalized = (window_norm_kwargs # {})
            /\ feattype # "mfcc" => feat.coefs = <<>>
            /\ feattype = "mfcc" =>
                    /\ \A c \in 0..(NumMelBins - 1) :
                            (\E k \in 1..Len(feat.coefs) : feat.coefs[k] = c)
                                <=> (ExpectedCoefBounds[1] <= c /\ c < ExpectedCoefBounds[2])
                    /\ \A k \in 1..Len(feat.coefs) : feat.coefs[k] \in 0..(NumMelBins - 1)
                    /\ \A k \in 1..(Len(feat.coefs) - 1) : feat.coefs[k] < feat.coefs[k + 1]

\* an mfcc run with default coefficient bounds and both post-processing stages has returned
C6_Witness ==
    /\ fpc = "done"
    /\ feattype = "mfcc"
    /\ mfcc_kwargs = {}
    /\ StageNames = <<"spectrograms", "melspectrograms", "log", "mfcc",
                      "feature_scaling", "window_normalization">>
    /\ Len(feat.coefs) = 12
    /\ feat.coefs[1] = 1

\* ============================================================== Model command
\* model_cache_dir = os.path.join(args.cache_dir, model_id)
model_cache_dir == "cache/model"
\* os.path.join(model_cache_dir, "tensorboard", "log", now_str)
tensorboard_dir == "cache/model/tensorboard/log/now"
\* os.path.join(model_cache_dir, "checkpoints")
checkpoint_dir == "cache/model/checkpoints"

\* the directory part of "filepath"; the file name part is epoch{epoch}_loss{val_loss}.hdf5
default_checkpoints_config ==
    [filepath |-> checkpoint_dir,
     load_weights_on_restart |-> TRUE,
     mode |-> "min",
     monitor |-> "val_loss",
     save_best_only |-> TRUE,
     verbose |-> 0]

\* checkpoints_config = dict(default_checkpoints_config, **model_config.get("checkpoints", {}))
checkpoints_config(config) ==
    [default_checkpoints_config EXCEPT
        !.filepath = Get(config.checkpoints, "filepath", @),
        !.save_best_only = Get(config.checkpoints, "save_best_only", @)]

\* what the experiment yaml may say under model.checkpoints: nothing, or
\* that every epoch is to be saved
CheckpointOverrides == Dicts({"save_best_only"}, {FALSE})

\* KerasWrapper(model_id, **callbacks_kwargs): a ModelCheckpoint callback is
\* built from the "checkpoints" argument unless it is None or not given
KerasWrapper(kwargs) ==
    [checkpoint_callback |-> IF "checkpoints" \in kwargs.keys THEN kwargs.checkpoints ELSE {},
     best |-> {}]

\* keras ModelCheckpoint with mode "min": does the epoch's monitored value improve on best
Improves(val_loss, best) == best = {} \/ \A b \in best : val_loss < b

\* keras ModelCheckpoint.on_epoch_end: which checkpoint files the epoch adds
EpochCheckpoints(m, e, val_loss) ==
    {[dir |-> cb.filepath, epoch |-> e, val_loss |-> val_loss] :
        cb \in {c \in m.checkpoint_callback :
                    ~c.save_best_only \/ Improves(val_loss, m.best)}}

InitModel ==
    /\ args \in [train : BOOLEAN, no_save_model : BOOLEAN]
    /\ model_config \in [checkpoints : CheckpointOverrides]
    /\ mpc = "start"
    /\ callbacks_kwargs = NoKwargs
    /\ dirs = {}
    /\ model = NoModel
    /\ epoch = 0
    /\ files = {}
    /\ IdleCount
    /\ IdleLabel
    /\ IdleFeat

\* Model.create_model, called from Model.run
create_model ==
    /\ mpc = "start"
    /\ LET kwargs ==
            IF ~args.train
            THEN [keys |-> {"device_str"}, checkpoints |-> {}]
            ELSE [keys |-> {"checkpoints", "early_stopping", "tensorboard"},
                  checkpoints |-> IF args.no_save_model THEN {}
                                  ELSE {checkpoints_config(model_config)}]
       IN /\ callbacks_kwargs' = kwargs
          /\ model' = KerasWrapper(kwargs)
    /\ dirs' = IF ~args.train THEN dirs
               ELSE dirs \cup {tensorboard_dir}
                         \cup (IF ~args.no_save_model THEN {checkpoint_dir} ELSE {})
    /\ mpc' = "created"
    /\ UNCHANGED <<args, model_config, epoch, files, countVars, labelVars, featVars>>

\* one epoch of model.fit in Model.train, with the checkpoint callback's on_epoch_end
FitEpoch ==
    /\ mpc = "created"
    /\ args.train
    /\ epoch < MaxEpochs
    /\ \E val_loss \in 1..MaxLoss :
        /\ files' = files \cup EpochCheckpoints(model, epoch + 1, val_loss)
        /\ model' = [model EXCEPT !.best =
                        IF model.checkpoint_callback # {} /\ Improves(val_loss, model.best)
                        THEN {val_loss} ELSE @]
    /\ epoch' = epoch + 1
    /\ UNCHANGED <<args, model_config, mpc, callbacks_kwargs, dirs,
                   countVars, labelVars, featVars>>

\* model.fit returns (all epochs run, or early stopping), or nothing is trained
TrainFinish ==
    /\ mpc = "created"
    /\ mpc' = "done"
    /\ UNCHANGED <<args, model_config, callbacks_kwargs, dirs, model, epoch, files,
                   countVars, labelVars, featVars>>

NextModel ==
    \/ create_model
    \/ FitEpoch
    \/ TrainFinish

SpecModel == InitModel /\ [][NextModel]_vars

\* C4: with --train and without --no-save-model, the checkpoint configuration
\* handed to the model makes every training epoch write a checkpoint into the
\* cache directory; with --no-save-model the checkpoints callback is None, no
\* checkpoint is written at any epoch and the checkpoints directory is not created.
C4_CheckpointEveryEpoch ==
    mpc \in {"created", "done"} =>
        /\ (args.train /\ ~args.no_save_model) =>
                \A e \in 1..epoch : \E f \in files : f.epoch = e /\ f.dir = checkpoint_dir
        /\ args.no_save_model =>
                /\ callbacks_kwargs.checkpoints = {}
                /\ model.checkpoint_callback = {}
                /\ files = {}
                /\ checkpoint_dir \notin dirs

\* C4, the --no-save-model half on its own: no checkpoint callback, no
\* checkpoint file at any epoch, no checkpoints directory.
C4_NoSaveModelWritesNothing ==
    (mpc \in {"created", "done"} /\ args.no_save_model) =>
        /\ callbacks_kwargs.checkpoints = {}
        /\ model.checkpoint_callback = {}
        /\ files = {}
        /\ checkpoint_dir \notin dirs

\* C4, what the default configuration does instead: an epoch writes a
\* checkpoint exactly when its validation loss is the best so far.
C4_DefaultSavesBestOnly ==
    (mpc \in {"created", "done"} /\ args.train /\ ~args.no_save_model
        /\ model_config.checkpoints = {}) =>
        /\ checkpoint_dir \in dirs
        /\ \A f \in files : f.dir = checkpoint_dir /\ f.epoch \in 1..epoch
        /\ \A f, g \in files : f.epoch < g.epoch => g.val_loss < f.val_loss
        /\ epoch >= 1 => \E f \in files : f.epoch = 1

====
